---- MODULE Spec2Model ----
(***************************************************************************)
(* The Simplex engine of src/services/simplexLogic.ts (solveSimplex) as a  *)
(* state machine: one action per program position of the function (build   *)
(* the tableau, one loop iteration, leave the loop, extract the solution), *)
(* and a caller that calls the function a second time.                     *)
(*                                                                         *)
(* Numbers.  The program computes with JavaScript numbers, which are       *)
(* IEEE 754 doubles: every operation gives the exact result rounded to 53  *)
(* binary digits, to the nearest and on a tie to the even one.  A number   *)
(* is modelled as a record: k = "num" is the double n/d for small n and d, *)
(* d a power of two; k = "big" is any other double, s * m * 2^e with the   *)
(* odd magnitude m written as a sequence of digits; k = "NaN" stands for   *)
(* both NaN and undefined (the program only compares them and computes     *)
(* with them, and both compare false and compute to NaN); k = "null" is    *)
(* JSON's null.  Left out are the sign of zero, which no comparison of     *)
(* the program distinguishes, and the ends of the exponent range           *)
(* (infinities and subnormal numbers), which the models solved here do     *)
(* not come near: the program divides only by entries it has found > 0.    *)
(***************************************************************************)
EXTENDS Integers, Sequences, FiniteSets, TLC

VARIABLES model, pc, tableau, basicVariables, steps, iterations, result, calls

vars == <<model, pc, tableau, basicVariables, steps, iterations, result, calls>>

-----------------------------------------------------------------------------
(* JavaScript numbers *)

Abs(i) == IF i < 0 THEN -i ELSE i

RECURSIVE GCD(_, _)
GCD(a, b) == IF b = 0 THEN a ELSE GCD(b, a % b)

NaN == [k |-> "NaN", n |-> 0, d |-> 1]

Null == [k |-> "null", n |-> 0, d |-> 1]

Rat(n, d) ==
    LET s == IF d < 0 THEN -1 ELSE 1
        g == GCD(Abs(n), Abs(d))
    IN  [k |-> "num", n |-> (s * n) \div g, d |-> (s * d) \div g]

Num(i) == [k |-> "num", n |-> i, d |-> 1]

\* x is a number: not NaN, undefined or null
IsNum(x) == x.k \in {"num", "big"}

(* Natural numbers of any size, as sequences of digits to the base 2^15,    *)
(* lowest digit first, without leading zero digits: <<>> is 0               *)

LimbBits == 15

Base == 2 ^ LimbBits

RECURSIVE Limbs(_)
Limbs(n) == IF n = 0 THEN <<>> ELSE <<n % Base>> \o Limbs(n \div Base)

Limb(a, i) == IF i \in DOMAIN a THEN a[i] ELSE 0

Highest(S) == CHOOSE i \in S : \A j \in S : j <= i

Lowest(S) == CHOOSE i \in S : \A j \in S : i <= j

Trim(a) ==
    LET nonzero == {i \in DOMAIN a : a[i] # 0}
    IN  IF nonzero = {} THEN <<>> ELSE SubSeq(a, 1, Highest(nonzero))

\* -1, 0 or 1 as a < b, a = b or a > b
Compare(a, b) ==
    IF Len(a) # Len(b) THEN (IF Len(a) < Len(b) THEN -1 ELSE 1)
    ELSE LET differ == {i \in DOMAIN a : a[i] # b[i]}
         IN  IF differ = {} THEN 0
             ELSE IF a[Highest(differ)] < b[Highest(differ)] THEN -1 ELSE 1

RECURSIVE AddFrom(_, _, _, _)
AddFrom(a, b, i, carry) ==
    IF i > Len(a) /\ i > Len(b)
    THEN (IF carry = 0 THEN <<>> ELSE <<carry>>)
    ELSE LET sum == Limb(a, i) + Limb(b, i) + carry
         IN  <<sum % Base>> \o AddFrom(a, b, i + 1, sum \div Base)

AddNat(a, b) == AddFrom(a, b, 1, 0)

RECURSIVE SubFrom(_, _, _, _)
SubFrom(a, b, i, borrow) ==
    IF i > Len(a) THEN <<>>
    ELSE LET difference == Limb(a, i) - Limb(b, i) - borrow
         IN  <<difference % Base>>
               \o SubFrom(a, b, i + 1, IF difference < 0 THEN 1 ELSE 0)

\* a - b for a >= b
SubNat(a, b) == Trim(SubFrom(a, b, 1, 0))

RECURSIVE ScaleFrom(_, _, _, _)
ScaleFrom(a, factor, i, carry) ==
    IF i > Len(a) THEN (IF carry = 0 THEN <<>> ELSE <<carry>>)
    ELSE LET product == a[i] * factor + carry
         IN  <<product % Base>>
               \o ScaleFrom(a, factor, i + 1, product \div Base)

\* a * factor for a digit factor
Scale(a, factor) == IF factor = 0 THEN <<>> ELSE ScaleFrom(a, factor, 1, 0)

\* a * Base^count
ShiftLimbs(a, count) ==
    IF a = <<>> THEN <<>> ELSE [i \in 1..count |-> 0] \o a

RECURSIVE MulFrom(_, _, _)
MulFrom(a, b, i) ==
    IF i > Len(b) THEN <<>>
    ELSE AddNat(ShiftLimbs(Scale(a, b[i]), i - 1), MulFrom(a, b, i + 1))

MulNat(a, b) == MulFrom(a, b, 1)

\* a * 2^count
ShiftLeft(a, count) ==
    ShiftLimbs(Scale(a, 2 ^ (count % LimbBits)), count \div LimbBits)

\* the integer part of a / 2^count
ShiftRight(a, count) ==
    LET whole == count \div LimbBits
        part == count % LimbBits
    IN  Trim([i \in 1..(Len(a) - whole) |->
               (a[i + whole] \div (2 ^ part))
                 + (Limb(a, i + whole + 1) % (2 ^ part))
                     * (2 ^ (LimbBits - part))])

RECURSIVE Bits(_)
Bits(n) == IF n = 0 THEN 0 ELSE 1 + Bits(n \div 2)

\* the number of binary digits of a
BitLength(a) ==
    IF a = <<>> THEN 0 ELSE LimbBits * (Len(a) - 1) + Bits(a[Len(a)])

\* the binary digit of a at position i, the lowest position being 0
Bit(a, i) == (Limb(a, i \div LimbBits + 1) \div (2 ^ (i % LimbBits))) % 2

\* the binary digits of a below position count are all 0
LowBitsZero(a, count) ==
    /\ \A i \in 1..(count \div LimbBits) : Limb(a, i) = 0
    /\ Limb(a, count \div LimbBits + 1) % (2 ^ (count % LimbBits)) = 0

RECURSIVE Twos(_)
Twos(n) == IF n % 2 = 1 THEN 0 ELSE 1 + Twos(n \div 2)

\* the number of 0 digits at the low end of a, for a > 0
TrailingZeros(a) ==
    LET i == Lowest({j \in DOMAIN a : a[j] # 0})
    IN  LimbBits * (i - 1) + Twos(a[i])

\* the largest digit q with divisor * q <= a, from a guess that is not
\* below it
RECURSIVE DigitFrom(_, _, _)
DigitFrom(a, divisor, guess) ==
    IF Compare(Scale(divisor, guess), a) <= 0 THEN guess
    ELSE DigitFrom(a, divisor, guess - 1)

\* the leading digits of a over the leading digit of the divisor, for
\* a < divisor * Base: a digit that is not below the quotient
QuotientDigit(a, divisor) ==
    LET high == Len(divisor)
        leading == Limb(a, high + 1) * Base + Limb(a, high)
        guess == leading \div divisor[high]
    IN  DigitFrom(a, divisor, IF guess < Base THEN guess ELSE Base - 1)

\* long division of a by divisor > 0, from digit i of a down, with the
\* remainder so far: the quotient's digits from i down and the remainder;
\* what a digit leaves is below the divisor
RECURSIVE DivFrom(_, _, _, _)
DivFrom(a, divisor, i, remainder) ==
    IF i = 0 THEN [q |-> <<>>, r |-> remainder]
    ELSE LET current == Trim(<<a[i]>> \o remainder)
             digit == QuotientDigit(current, divisor)
             left == SubNat(current, Scale(divisor, digit))
         IN  IF Compare(left, divisor) < 0
             THEN LET rest == DivFrom(a, divisor, i - 1, left)
                  IN  [q |-> Append(rest.q, digit), r |-> rest.r]
             ELSE [q |-> <<>>, r |-> left]

DivNat(a, divisor) ==
    LET division == DivFrom(a, divisor, Len(a), <<>>)
    IN  [q |-> Trim(division.q), r |-> division.r]

(* Doubles.  k = "num" is the number n/d, d a power of two, both below      *)
(* 2^SmallBits; k = "big" is any other double, s * m * 2^e with m odd       *)

MantissaBits == 53

SmallBits == 14

IsSmall(n, d) == Abs(n) < 2 ^ SmallBits /\ d <= 2 ^ SmallBits

RECURSIVE IsPowerOfTwo(_)
IsPowerOfTwo(d) == d = 1 \/ (d % 2 = 0 /\ IsPowerOfTwo(d \div 2))

Sign(i) == IF i < 0 THEN -1 ELSE IF i = 0 THEN 0 ELSE 1

RECURSIVE ToInt(_)
ToInt(a) == IF a = <<>> THEN 0 ELSE a[1] + Base * ToInt(Tail(a))

\* the sign, the magnitude and the binary exponent of a number
Parts(x) ==
    IF x.k = "num"
    THEN [s |-> Sign(x.n), m |-> Limbs(Abs(x.n)), e |-> 1 - Bits(x.d)]
    ELSE [s |-> x.s, m |-> x.m, e |-> x.e]

\* the number s * m * 2^e, for m of at most MantissaBits binary digits
Double(s, m, e) ==
    IF m = <<>> \/ s = 0 THEN Num(0)
    ELSE LET zeros == TrailingZeros(m)
             odd == ShiftRight(m, zeros)
             exponent == e + zeros
             length == BitLength(odd)
         IN  IF exponent >= 0 /\ length + exponent <= SmallBits
             THEN Num(s * ToInt(odd) * 2 ^ exponent)
             ELSE IF exponent < 0 /\ length <= SmallBits
                     /\ -exponent <= SmallBits
             THEN [k |-> "num", n |-> s * ToInt(odd), d |-> 2 ^ (-exponent)]
             ELSE [k |-> "big", s |-> s, m |-> odd, e |-> exponent]

\* s * m * 2^e rounded to MantissaBits binary digits, to the nearest and on
\* a tie to the even one, as every operation of a double rounds its result
Round(s, m, e) ==
    LET excess == BitLength(m) - MantissaBits
    IN  IF excess <= 0 THEN Double(s, m, e)
        ELSE LET kept == ShiftRight(m, excess)
                 half == Bit(m, excess - 1) = 1
                 below == ~LowBitsZero(m, excess - 1)
                 up == half /\ (below \/ Bit(kept, 0) = 1)
             IN  Double(s, IF up THEN AddNat(kept, <<1>>) ELSE kept,
                        e + excess)

\* a + b, exactly
ExactAdd(a, b) ==
    LET e == IF a.e < b.e THEN a.e ELSE b.e
        ma == ShiftLeft(a.m, a.e - e)
        mb == ShiftLeft(b.m, b.e - e)
        order == Compare(ma, mb)
    IN  IF a.s = 0 THEN b
        ELSE IF b.s = 0 THEN a
        ELSE IF a.s = b.s THEN [s |-> a.s, m |-> AddNat(ma, mb), e |-> e]
        ELSE IF order = 0 THEN [s |-> 0, m |-> <<>>, e |-> 0]
        ELSE IF order > 0 THEN [s |-> a.s, m |-> SubNat(ma, mb), e |-> e]
        ELSE [s |-> b.s, m |-> SubNat(mb, ma), e |-> e]

ExactNeg(a) == [a EXCEPT !.s = -a.s]

ExactMul(a, b) == [s |-> a.s * b.s, m |-> MulNat(a.m, b.m), e |-> a.e + b.e]

\* a / b with enough binary digits to round it, the lowest one standing
\* for a remainder
LongQuotient(a, b) ==
    LET fill == (LimbBits - (BitLength(b.m) % LimbBits)) % LimbBits
        divisor == ShiftLeft(b.m, fill)
        short == MantissaBits + 3 + BitLength(divisor) - BitLength(a.m)
        shift == IF short < 0 THEN 0 ELSE short
        division == DivNat(ShiftLeft(a.m, shift), divisor)
        e == a.e - b.e - shift + fill
    IN  IF division.r = <<>>
        THEN [s |-> a.s * b.s, m |-> division.q, e |-> e]
        ELSE [s |-> a.s * b.s, m |-> AddNat(Scale(division.q, 2), <<1>>),
              e |-> e - 1]

Rounded(x) == Round(x.s, x.m, x.e)

BothSmall(a, b) == a.k = "num" /\ b.k = "num"

\* n/d of small integers as a number, d being a power of two
Dyadic(n, d) ==
    LET r == Rat(n, d)
    IN  IF IsSmall(r.n, r.d) THEN r
        ELSE Double(Sign(r.n), Limbs(Abs(r.n)), 1 - Bits(r.d))

\* a < b of JavaScript: false when either side is NaN or undefined
Lt(a, b) ==
    /\ IsNum(a)
    /\ IsNum(b)
    /\ IF BothSmall(a, b) THEN a.n * b.d < b.n * a.d
       ELSE IF Parts(a).s # Parts(b).s THEN Parts(a).s < Parts(b).s
       ELSE ExactAdd(Parts(a), ExactNeg(Parts(b))).s < 0

\* -a
Neg(a) ==
    IF ~IsNum(a) THEN NaN
    ELSE IF a.k = "num" THEN [a EXCEPT !.n = -a.n]
    ELSE [a EXCEPT !.s = -a.s]

\* a - b
Sub(a, b) ==
    IF ~(IsNum(a) /\ IsNum(b)) THEN NaN
    ELSE IF BothSmall(a, b) THEN Dyadic(a.n * b.d - b.n * a.d, a.d * b.d)
    ELSE IF b = Num(0) THEN a
    ELSE Rounded(ExactAdd(Parts(a), ExactNeg(Parts(b))))

\* a * b
Mul(a, b) ==
    IF ~(IsNum(a) /\ IsNum(b)) THEN NaN
    ELSE IF BothSmall(a, b) THEN Dyadic(a.n * b.n, a.d * b.d)
    ELSE IF a = Num(0) \/ b = Num(0) THEN Num(0)
    ELSE Rounded(ExactMul(Parts(a), Parts(b)))

\* a / b; the program divides only by entries it has tested to be > 0
Div(a, b) ==
    IF ~(IsNum(a) /\ IsNum(b)) THEN NaN
    ELSE IF b.k = "num" /\ b.n = 0 THEN NaN
    ELSE IF BothSmall(a, b) /\ IsPowerOfTwo(Rat(a.n * b.d, a.d * b.n).d)
    THEN Dyadic(a.n * b.d, a.d * b.n)
    ELSE IF a = Num(0) THEN Num(0)
    ELSE Rounded(LongQuotient(Parts(a), Parts(b)))

\* array[j] of JavaScript, j counted from 0: undefined past the end
At(array, j) == IF j + 1 \in DOMAIN array THEN array[j + 1] ELSE NaN

-----------------------------------------------------------------------------
(* solveSimplex: the locals computed from the model *)

isMin(m) == m.type = "MIN"

numConstraints(m) == Len(m.constraints)

totalCols(m) == m.numVariables + numConstraints(m) + 1

totalRows(m) == numConstraints(m) + 1

maxIterations == 100

\* the loop entered once more when the counter has reached the ceiling
LoopConditionInclusive(n) == n <= maxIterations

\* line 56: the loop's condition, tested before every iteration
LoopCondition(n) == n < maxIterations

Zero == Num(0)

One == Num(1)

\* the initial tableau with the signs of every >= row flipped, as the
\* comment of line 12 announces
SignFlippedTableau(m) ==
    LET N == m.numVariables
        M == numConstraints(m)
        flip(i, v) == IF m.constraints[i].type = ">=" THEN Neg(v) ELSE v
    IN  [i \in 1..totalRows(m) |->
          [j \in 1..totalCols(m) |->
            IF i <= M
            THEN IF j <= N
                 THEN flip(i, At(m.constraints[i].coefficients, j - 1))
                 ELSE IF j = N + i THEN One
                 ELSE IF j = totalCols(m) THEN flip(i, m.constraints[i].rhs)
                 ELSE Zero
            ELSE IF j <= N
                 THEN IF isMin(m) THEN At(m.objectiveCoefficients, j - 1)
                      ELSE Neg(At(m.objectiveCoefficients, j - 1))
                 ELSE Zero]]

\* lines 25-50: the initial tableau, rows and columns counted from 1
InitialTableau(m) ==
    LET N == m.numVariables
        M == numConstraints(m)
    IN  [i \in 1..totalRows(m) |->
          [j \in 1..totalCols(m) |->
            IF i <= M
            THEN IF j <= N THEN At(m.constraints[i].coefficients, j - 1)
                 ELSE IF j = N + i THEN One
                 ELSE IF j = totalCols(m) THEN m.constraints[i].rhs
                 ELSE Zero
            ELSE IF j <= N
                 THEN IF isMin(m) THEN At(m.objectiveCoefficients, j - 1)
                      ELSE Neg(At(m.objectiveCoefficients, j - 1))
                 ELSE Zero]]

\* lines 26, 41: the initial basis, one slack column (counted from 0) per row
InitialBasis(m) == [i \in 1..numConstraints(m) |-> m.numVariables + (i - 1)]

\* the steps of the call before, as a module-level array would keep them
StaleSteps == steps

\* line 52
FreshSteps == <<>>

\* lines 61-69: the entering column (counted from 0), -1 when no entry is < 0
RECURSIVE ScanCols(_, _, _, _)
ScanCols(lastRow, j, minValue, pivotCol) ==
    IF j >= Len(lastRow) - 1 THEN pivotCol
    ELSE IF Lt(lastRow[j + 1], minValue)
         THEN ScanCols(lastRow, j + 1, lastRow[j + 1], j)
         ELSE ScanCols(lastRow, j + 1, minValue, pivotCol)

\* the first column with a negative entry, not the most negative one
FirstNegativeCol(t) ==
    LET negative == {j \in 0..(Len(t[Len(t)]) - 2) : Lt(t[Len(t)][j + 1], Zero)}
    IN  IF negative = {} THEN -1
        ELSE CHOOSE j \in negative : \A k \in negative : j <= k

\* the most negative entry's column, the last one of them on a tie
LastMostNegativeCol(t) ==
    LET lastRow == t[Len(t)]
        negative == {j \in 0..(Len(lastRow) - 2) : Lt(lastRow[j + 1], Zero)}
        least == {j \in negative :
                    \A k \in negative : ~Lt(lastRow[k + 1], lastRow[j + 1])}
    IN  IF negative = {} THEN -1
        ELSE CHOOSE j \in least : \A k \in least : k <= j

SelectPivotCol(t) == ScanCols(t[Len(t)], 0, Zero, -1)

\* ratio <= minRatio: on a tie the later row wins
RatioLessOrEqual(ratio, minRatio, pivotRow) ==
    IF pivotRow = -1 THEN IsNum(ratio) ELSE ~Lt(minRatio, ratio)

\* line 92: ratio < minRatio, where minRatio is Infinity until a row is chosen
RatioLess(ratio, minRatio, pivotRow) ==
    IF pivotRow = -1 THEN IsNum(ratio) ELSE Lt(ratio, minRatio)

\* an entry of either sign takes part in the ratio test
EligibleNonZero(coeff) == Lt(Zero, coeff) \/ Lt(coeff, Zero)

\* line 90: only a row with an entry > 0 in the entering column takes part
Eligible(coeff) == Lt(Zero, coeff)

\* lines 83-97: the ratio test; the pivot row (counted from 0), -1 when no row
\* has an entry > 0 in the entering column
RECURSIVE ScanRows(_, _, _, _, _)
ScanRows(t, pivotCol, i, minRatio, pivotRow) ==
    IF i >= Len(t) - 1 THEN pivotRow
    ELSE LET rhs == t[i + 1][Len(t[i + 1])]
             coeff == t[i + 1][pivotCol + 1]
             ratio == Div(rhs, coeff)
         IN  IF Eligible(coeff) /\ RatioLess(ratio, minRatio, pivotRow)
             THEN ScanRows(t, pivotCol, i + 1, ratio, i)
             ELSE ScanRows(t, pivotCol, i + 1, minRatio, pivotRow)

SelectPivotRow(t, pivotCol) == ScanRows(t, pivotCol, 0, Zero, -1)

\* the pivot row left as it is
UnnormalizedRow(row, pivotElement) == row

\* lines 120-123: the pivot row divided by the pivot element
NormalizeRow(row, pivotElement) ==
    [j \in DOMAIN row |-> Div(row[j], pivotElement)]

\* lines 129-136: every other row minus factor times the normalized pivot row
EliminateRow(row, factor, pivotRowValues) ==
    [j \in DOMAIN row |-> Sub(row[j], Mul(factor, pivotRowValues[j]))]

\* lines 118-136: the pivot on (pivotRow, pivotCol), both counted from 0
Pivot(t, pivotRow, pivotCol) ==
    LET pivotElement == t[pivotRow + 1][pivotCol + 1]
        normalized == NormalizeRow(t[pivotRow + 1], pivotElement)
    IN  [i \in DOMAIN t |->
          IF i = pivotRow + 1 THEN normalized
          ELSE EliminateRow(t[i], t[i][pivotCol + 1], normalized)]

\* the model with its constraints' coefficient arrays holding the tableau's
\* rows, as they would if the rows were those arrays and not copies
ModelWrittenThrough(m, t) ==
    [m EXCEPT !.constraints =
       [i \in DOMAIN @ |->
          [@[i] EXCEPT !.coefficients = [j \in DOMAIN @ |-> t[i][j]]]]]

\* lines 25, 33, 38, 49: the tableau's rows are arrays of their own that
\* hold copies of the model's numbers, so the writes of lines 122 and 133,
\* which leave the tableau as t, leave the model m as it is
ModelAfterPivot(m, t) == m

\* line 126
UpdateBasis(basis, pivotRow, pivotCol) ==
    [basis EXCEPT ![pivotRow + 1] = pivotCol]

\* lines 74, 110: JSON.parse(JSON.stringify(tableau)), a copy in which NaN
\* and undefined have become null
Snapshot(t) ==
    [i \in DOMAIN t |->
      [j \in DOMAIN t[i] |-> IF IsNum(t[i][j]) THEN t[i][j] ELSE Null]]

\* line 114: the description names the entering variable "x<pivotCol + 1>"
\* and the leaving variable "s<basicVariables[pivotRow] - numVariables + 1>"
PivotDescription(m, basis, pivotRow, pivotCol) ==
    [kind |-> "pivot", row |-> pivotRow + 1, col |-> pivotCol + 1,
     entering |-> <<"x", pivotCol + 1>>,
     leaving |-> <<"s", basis[pivotRow + 1] - m.numVariables + 1>>]

\* the step recorded after the pivot instead of before it
LateStepRecord(m, t, basis, pivotRow, pivotCol) ==
    [tableau |-> Snapshot(Pivot(t, pivotRow, pivotCol)),
     pivotRow |-> pivotRow, pivotCol |-> pivotCol,
     basicVariables |-> basis,
     description |-> PivotDescription(m, basis, pivotRow, pivotCol),
     isOptimal |-> FALSE]

\* lines 109-116
PivotStepRecord(m, t, basis, pivotRow, pivotCol) ==
    [tableau |-> Snapshot(t), pivotRow |-> pivotRow, pivotCol |-> pivotCol,
     basicVariables |-> basis,
     description |-> PivotDescription(m, basis, pivotRow, pivotCol),
     isOptimal |-> FALSE]

\* lines 73-78: the terminal step has no pivotRow and no pivotCol
OptimalStepRecord(t, basis) ==
    [tableau |-> Snapshot(t), basicVariables |-> basis,
     description |-> [kind |-> "optimal"], isOptimal |-> TRUE]

\* lines 142-148: the decision variables' values, 0 for a non-basic variable
RECURSIVE FillValues(_, _, _, _, _)
FillValues(m, t, basis, i, variableValues) ==
    IF i >= numConstraints(m) THEN variableValues
    ELSE LET basicVarIndex == basis[i + 1]
         IN  IF basicVarIndex < m.numVariables
             THEN FillValues(m, t, basis, i + 1,
                    [variableValues EXCEPT
                       ![basicVarIndex + 1] = t[i + 1][totalCols(m)]])
             ELSE FillValues(m, t, basis, i + 1, variableValues)

\* the value of variable i read from row i, whatever is basic there
ValuesByRowNumber(m, t, basis) ==
    [j \in 1..m.numVariables |->
       IF j <= numConstraints(m) THEN t[j][totalCols(m)] ELSE Zero]

ExtractValues(m, t, basis) ==
    FillValues(m, t, basis, 0, [j \in 1..m.numVariables |-> Zero])

\* the objective row's RHS as it stands, not negated back for MINIMIZE
RawOptimalValue(m, t) == t[totalRows(m)][totalCols(m)]

\* lines 150-151
ExtractOptimalValue(m, t) ==
    LET z == t[totalRows(m)][totalCols(m)]
    IN  IF isMin(m) THEN Neg(z) ELSE z

\* lines 153-158
OptimalResult(m, t, basis, trace) ==
    [optimalValue |-> ExtractOptimalValue(m, t),
     variableValues |-> ExtractValues(m, t, basis),
     status |-> "OPTIMAL", steps |-> trace]

\* an UNBOUNDED result that reports 0 as its optimal value
UnboundedResultWithValue(trace) ==
    [optimalValue |-> Zero, variableValues |-> <<>>,
     status |-> "UNBOUNDED", steps |-> trace]

\* lines 101-106
UnboundedResult(trace) ==
    [optimalValue |-> Null, variableValues |-> <<>>,
     status |-> "UNBOUNDED", steps |-> trace]

\* no value returned yet
NoResult ==
    [optimalValue |-> Null, variableValues |-> <<>>,
     status |-> "NONE", steps |-> <<>>]

-----------------------------------------------------------------------------
(* The models solved *)

MaxCoef == 1

MaxRhs == 1

Coefs == {Num(i) : i \in -1..MaxCoef}

\* right-hand sides: negative ones too where there are at most two rows of
\* at most three numbers, and 0 and the largest one where there are two
\* rows of three
RhsValues(sh) ==
    IF sh = <<2, 2>> THEN {Zero, Num(MaxRhs)} ELSE {Num(i) : i \in -1..MaxRhs}

\* <<numVariables, number of constraints>>
Shapes == {<<1, 0>>, <<1, 1>>, <<2, 1>>, <<1, 2>>, <<2, 2>>}

VariableName == <<"X1", "X2", "X3", "X4">>

ConstraintId == <<"c1", "c2", "c3">>

MakeConstraint(i, coefficients, rhs) ==
    [id |-> ConstraintId[i], coefficients |-> coefficients, type |-> "<=",
     rhs |-> rhs]

MakeModel(type, N, objective, rows) ==
    [type |-> type, numVariables |-> N,
     variableNames |-> [j \in 1..N |-> VariableName[j]],
     objectiveCoefficients |-> objective,
     constraints |->
       [i \in DOMAIN rows |-> MakeConstraint(i, rows[i].co, rows[i].rhs)]]

\* m is one of the models of the grid: MAXIMIZE with every objective and
\* every constraint over the values above, in every shape (the caller's
\* second call solves the MINIMIZE models)
InGrid(m) ==
    \E sh \in Shapes :
      \E objective \in [1..sh[1] -> Coefs] :
        \E rows \in [1..sh[2] -> [co : [1..sh[1] -> Coefs], rhs : RhsValues(sh)]] :
          m = MakeModel("MAX", sh[1], objective, rows)

Ints(seq) == [j \in DOMAIN seq |-> Num(seq[j])]

\* the model the application starts with
AppDefaultModel ==
    MakeModel("MAX", 2, Ints(<<10, 20>>),
              <<[co |-> Ints(<<1, 1>>), rhs |-> Num(50)],
                [co |-> Ints(<<2, 4>>), rhs |-> Num(120)]>>)

\* Beale's degenerate model, on which Dantzig's rule with lowest-index ties
\* cycles with period 6
BealeModel ==
    MakeModel("MAX", 4, <<Rat(3, 4), Num(-20), Rat(1, 2), Num(-6)>>,
              <<[co |-> <<Rat(1, 4), Num(-8), Num(-1), Num(9)>>, rhs |-> Zero],
                [co |-> <<Rat(1, 2), Num(-12), Rat(-1, 2), Num(3)>>,
                 rhs |-> Zero],
                [co |-> Ints(<<0, 0, 1, 0>>), rhs |-> One]>>)

\* a model solved by two pivots in the same row: x1 enters, then x2 enters
\* and x1 leaves
LeavingDecisionVariableModel ==
    MakeModel("MAX", 2, Ints(<<1, 1>>),
              <<[co |-> Ints(<<2, 1>>), rhs |-> Num(2)]>>)

\* two models whose optimal vertex has thirds for coordinates, which no
\* double holds: (1/3, 4/3) with optimal value 7/3 ...
ThirdsObjectiveModel ==
    MakeModel("MAX", 2, Ints(<<-1, 2>>),
              <<[co |-> Ints(<<-1, 1>>), rhs |-> Num(1)],
                [co |-> Ints(<<2, 1>>), rhs |-> Num(2)]>>)

\* ... and (5/3, 4/3), where both constraints hold with equality
ThirdsVertexModel ==
    MakeModel("MAX", 2, Ints(<<0, 1>>),
              <<[co |-> Ints(<<-1, 2>>), rhs |-> Num(1)],
                [co |-> Ints(<<2, -1>>), rhs |-> Num(2)]>>)

NamedModels ==
    {AppDefaultModel, BealeModel, LeavingDecisionVariableModel,
     ThirdsObjectiveModel, ThirdsVertexModel}

\* every coefficient sequence of the model has numVariables >= 1 entries
WellFormed(m) ==
    /\ m.numVariables >= 1
    /\ Len(m.objectiveCoefficients) = m.numVariables
    /\ \A i \in DOMAIN m.constraints :
         Len(m.constraints[i].coefficients) = m.numVariables

-----------------------------------------------------------------------------
(* The caller's second call *)

NegateAll(seq) == [j \in DOMAIN seq |-> Neg(seq[j])]

\* MINIMIZE c.x for MAXIMIZE (-c).x and back, over the same constraints
Dual(m) ==
    [m EXCEPT !.type = IF isMin(m) THEN "MAX" ELSE "MIN",
              !.objectiveCoefficients = NegateAll(m.objectiveCoefficients)]

OtherName == <<"profit", "cost", "b", "a">>

OtherId == <<"z9", "z8", "z7">>

\* src/types.ts line 15: the relation types besides <=
OtherType(i) == IF i % 2 = 1 THEN ">=" ELSE "="

\* the same numbers under other variable names, other constraint ids and
\* other relation types
Relabel(m) ==
    [m EXCEPT !.variableNames = [j \in DOMAIN @ |-> OtherName[j]],
              !.constraints =
                [i \in DOMAIN @ |->
                   [@[i] EXCEPT !.id = OtherId[i], !.type = OtherType(i)]]]

NextModels(m) == {m, Dual(m), Relabel(m)}

-----------------------------------------------------------------------------
(* The state machine *)

Init ==
    /\ (InGrid(model) \/ model \in NamedModels)
    /\ pc = "start"
    /\ tableau = <<>>
    /\ basicVariables = <<>>
    /\ steps = <<>>
    /\ iterations = 0
    /\ result = NoResult
    /\ calls = <<>>

\* lines 8-54: the locals are built from the model
Build ==
    /\ pc = "start"
    /\ tableau' = InitialTableau(model)
    /\ basicVariables' = InitialBasis(model)
    /\ steps' = FreshSteps
    /\ iterations' = 0
    /\ pc' = "loop"
    /\ UNCHANGED <<model, result, calls>>

\* lines 56-80: an iteration that finds no negative entry in the objective row
OptimalStep ==
    /\ pc = "loop"
    /\ LoopCondition(iterations)
    /\ SelectPivotCol(tableau) = -1
    /\ steps' = Append(steps, OptimalStepRecord(tableau, basicVariables))
    /\ pc' = "extract"
    /\ UNCHANGED <<model, tableau, basicVariables, iterations, result, calls>>

\* lines 56-107: an iteration whose ratio test finds no row
UnboundedReturn ==
    /\ pc = "loop"
    /\ LoopCondition(iterations)
    /\ LET pivotCol == SelectPivotCol(tableau)
       IN  /\ pivotCol # -1
           /\ SelectPivotRow(tableau, pivotCol) = -1
    /\ result' = UnboundedResult(steps)
    /\ calls' = Append(calls, [model |-> model, result |-> result'])
    /\ pc' = "done"
    /\ UNCHANGED <<model, tableau, basicVariables, steps, iterations>>

\* lines 56-138: an iteration that pivots
PivotStep ==
    /\ pc = "loop"
    /\ LoopCondition(iterations)
    /\ LET pivotCol == SelectPivotCol(tableau)
           pivotRow == SelectPivotRow(tableau, pivotCol)
       IN  /\ pivotCol # -1
           /\ pivotRow # -1
           /\ steps' = Append(steps, PivotStepRecord(model, tableau,
                                       basicVariables, pivotRow, pivotCol))
           /\ tableau' = Pivot(tableau, pivotRow, pivotCol)
           /\ model' = ModelAfterPivot(model,
                                       Pivot(tableau, pivotRow, pivotCol))
           /\ basicVariables' = UpdateBasis(basicVariables, pivotRow, pivotCol)
    /\ iterations' = iterations + 1
    /\ UNCHANGED <<pc, result, calls>>

\* line 56: the loop condition fails
CeilingExit ==
    /\ pc = "loop"
    /\ ~LoopCondition(iterations)
    /\ pc' = "extract"
    /\ UNCHANGED <<model, tableau, basicVariables, steps, iterations, result,
                   calls>>

\* lines 141-158: the solution is read off the tableau and returned as OPTIMAL
ExtractReturn ==
    /\ pc = "extract"
    /\ result' = OptimalResult(model, tableau, basicVariables, steps)
    /\ calls' = Append(calls, [model |-> model, result |-> result'])
    /\ pc' = "done"
    /\ UNCHANGED <<model, tableau, basicVariables, steps, iterations>>

\* the caller calls solveSimplex once more; the locals of the call that
\* returned are out of scope, their values stay until Build replaces them
CallAgain ==
    /\ pc = "done"
    /\ Len(calls) = 1
    /\ model' \in NextModels(model)
    /\ result' = NoResult
    /\ pc' = "start"
    /\ UNCHANGED <<tableau, basicVariables, steps, iterations, calls>>

Next ==
    \/ Build
    \/ OptimalStep
    \/ UnboundedReturn
    \/ PivotStep
    \/ CeilingExit
    \/ ExtractReturn
    \/ CallAgain

Spec == Init /\ [][Next]_vars

-----------------------------------------------------------------------------
(* Models whose sequences do not fit numVariables: nothing between the       *)
(* parser of the assistant's answer and solveSimplex checks the lengths      *)

DropLast(seq) == SubSeq(seq, 1, Len(seq) - 1)

BaseModels ==
    {MakeModel("MAX", 2, objective, rows) :
       objective \in [1..2 -> Coefs],
       rows \in [1..1 -> [co : [1..2 -> Coefs], rhs : RhsValues(<<2, 1>>)]]}

NoVariables(m) ==
    [m EXCEPT !.numVariables = 0, !.variableNames = <<>>,
              !.objectiveCoefficients = <<>>,
              !.constraints =
                 [i \in DOMAIN @ |-> [@[i] EXCEPT !.coefficients = <<>>]]]

Malformations(m) ==
    {[m EXCEPT !.objectiveCoefficients = DropLast(@)],
     [m EXCEPT !.objectiveCoefficients = <<>>],
     [m EXCEPT !.objectiveCoefficients = Append(@, One)],
     [m EXCEPT !.constraints[1].coefficients = DropLast(@)],
     [m EXCEPT !.constraints[1].coefficients = Append(@, One)],
     NoVariables(m)}

MalformedModels == UNION {Malformations(m) : m \in BaseModels}

InitAnyModel ==
    /\ (InGrid(model) \/ model \in NamedModels \/ model \in MalformedModels)
    /\ pc = "start"
    /\ tableau = <<>>
    /\ basicVariables = <<>>
    /\ steps = <<>>
    /\ iterations = 0
    /\ result = NoResult
    /\ calls = <<>>

SpecAnyModel == InitAnyModel /\ [][Next]_vars

-----------------------------------------------------------------------------
(* Observations shared by the properties *)

Returned == pc = "done"

\* the objective row has a negative entry outside the RHS column
HasNegativeObjectiveEntry(t) ==
    \E j \in 1..(Len(t[Len(t)]) - 1) : Lt(t[Len(t)][j], Zero)

-----------------------------------------------------------------------------
\* C1: a result with status OPTIMAL is extracted from a tableau whose
\* objective row has no negative non-RHS entry; a loop that ends at the
\* iteration ceiling with such an entry left is not reported as OPTIMAL.
OptimalOnlyWhenConverged ==
    (Returned /\ result.status = "OPTIMAL")
      => ~HasNegativeObjectiveEntry(tableau)

\* C2: a malformed model (a coefficient sequence whose length is not
\* numVariables, no variables, an empty objective) is rejected before a
\* tableau is built and no result is returned for it.
MalformedModelRejected ==
    ~WellFormed(model) => (pc = "start" /\ result = NoResult)

\* the entering column has no entry > 0 in a constraint row
UnboundedDetected ==
    /\ pc = "loop"
    /\ iterations < maxIterations
    /\ SelectPivotCol(tableau) # -1
    /\ \A i \in 1..numConstraints(model) :
         ~Lt(Zero, tableau[i][SelectPivotCol(tableau) + 1])

\* C3: when the entering column has no strictly positive entry in a
\* constraint row the call returns at once: status UNBOUNDED, no optimal
\* value, no variable values, and as steps exactly the pivot steps recorded
\* so far, none of them marked optimal.
UnboundedStopsAtOnce ==
    [][UnboundedDetected =>
         /\ pc' = "done"
         /\ result' = [optimalValue |-> Null, variableValues |-> <<>>,
                       status |-> "UNBOUNDED", steps |-> steps]
         /\ \A k \in DOMAIN steps :
              ~steps[k].isOptimal /\ "pivotRow" \in DOMAIN steps[k]]_vars

UnboundedAfterPivot ==
    Returned /\ result.status = "UNBOUNDED" /\ Len(result.steps) >= 1

\* a + b
Add(a, b) == Sub(a, Neg(b))

RECURSIVE DotFrom(_, _, _)
DotFrom(c, x, j) ==
    IF j > Len(c) THEN Zero ELSE Add(Mul(c[j], x[j]), DotFrom(c, x, j + 1))

\* c.x
Dot(c, x) == DotFrom(c, x, 1)

\* x >= 0 satisfies every constraint read as coefficients.x <= rhs
Feasible(m, x) ==
    /\ \A j \in DOMAIN x : ~Lt(x[j], Zero)
    /\ \A i \in DOMAIN m.constraints :
         ~Lt(m.constraints[i].rhs, Dot(m.constraints[i].coefficients, x))

\* C4 as stated: on the application's default model the result is OPTIMAL
\* with optimal value 1000 at a point that satisfies both constraints.
AppDefaultValue1000 ==
    (Returned /\ model = AppDefaultModel) =>
      /\ result.status = "OPTIMAL"
      /\ result.optimalValue = Num(1000)
      /\ Feasible(model, result.variableValues)

\* C4 (amended): on the application's default model the result is OPTIMAL
\* with optimal value exactly 600 at (x1 = 0, x2 = 30), a point that
\* satisfies both constraints and at which the objective is 600.
AppDefaultValue600 ==
    (Returned /\ model = AppDefaultModel) =>
      /\ result.status = "OPTIMAL"
      /\ result.optimalValue = Num(600)
      /\ result.variableValues = Ints(<<0, 30>>)
      /\ Feasible(model, result.variableValues)
      /\ Dot(model.objectiveCoefficients, result.variableValues) = Num(600)

AppDefaultSolved ==
    Returned /\ model = AppDefaultModel /\ result.status = "OPTIMAL"
      /\ Len(result.steps) = 2

\* the (pivotRow, pivotCol) of every step, <<>> for the terminal step
Pivots(trace) ==
    [k \in DOMAIN trace |->
       IF "pivotRow" \in DOMAIN trace[k]
       THEN <<trace[k].pivotRow, trace[k].pivotCol>> ELSE <<>>]

SecondCallIsDual == Len(calls) = 2 /\ calls[2].model = Dual(calls[1].model)

\* C5: MINIMIZE c.x and MAXIMIZE (-c).x over the same constraints return the
\* same status, the same pivot sequence and the same variable values, and
\* optimal values that are negations of each other (both absent when the
\* status is UNBOUNDED).
DualGivesNegatedOptimum ==
    SecondCallIsDual =>
      LET a == calls[1].result
          b == calls[2].result
      IN  /\ a.status = b.status
          /\ Pivots(a.steps) = Pivots(b.steps)
          /\ a.variableValues = b.variableValues
          /\ IF IsNum(a.optimalValue) THEN b.optimalValue = Neg(a.optimalValue)
             ELSE b.optimalValue = a.optimalValue

DualSolvedWithPivots ==
    /\ SecondCallIsDual
    /\ calls[2].model.type = "MIN"
    /\ calls[2].result.status = "OPTIMAL"
    /\ Len(calls[2].result.steps) >= 3
    /\ Lt(calls[2].result.optimalValue, Zero)

AfterPivot == pc \in {"loop", "extract", "done"} /\ iterations >= 1

\* C6: after every pivot there is one basic variable per constraint row, the
\* basic variables are pairwise distinct, and the column of the variable
\* basic in row i has 1 in row i and 0 in every other constraint row.
BasisIsIdentity ==
    AfterPivot =>
      LET M == numConstraints(model)
      IN  /\ Len(basicVariables) = M
          /\ \A i, r \in 1..M :
               /\ (i # r => basicVariables[i] # basicVariables[r])
               /\ tableau[r][basicVariables[i] + 1] =
                    (IF r = i THEN One ELSE Zero)

TwoDecisionVariablesBasic ==
    /\ AfterPivot
    /\ iterations >= 2
    /\ numConstraints(model) = 2
    /\ \A i \in 1..2 : basicVariables[i] < model.numVariables
    /\ \E i \in 1..2, j \in 1..totalCols(model) :
         tableau[i][j].k = "num" /\ tableau[i][j].d > 1

\* C7: an OPTIMAL result's trace is not empty, its last step is marked
\* optimal and has no pivot, every earlier step is not marked optimal and
\* has a pivot; an UNBOUNDED result's trace has no step marked optimal.
StepTraceCoherent ==
    Returned =>
      LET trace == result.steps
      IN  /\ result.status = "OPTIMAL" =>
               /\ trace # <<>>
               /\ trace[Len(trace)].isOptimal
               /\ "pivotRow" \notin DOMAIN trace[Len(trace)]
               /\ "pivotCol" \notin DOMAIN trace[Len(trace)]
               /\ \A k \in 1..(Len(trace) - 1) :
                    /\ ~trace[k].isOptimal
                    /\ "pivotRow" \in DOMAIN trace[k]
                    /\ "pivotCol" \in DOMAIN trace[k]
          /\ result.status = "UNBOUNDED" =>
               \A k \in DOMAIN trace : ~trace[k].isOptimal

\* the pivot as the design states it: the pivot row divided by the pivot
\* element, and every other row minus its entering-column entry times that
ReplayPivot(t, r, c) ==
    [i \in DOMAIN t |->
      [j \in DOMAIN t[i] |->
        IF i = r + 1 THEN Div(t[i][j], t[r + 1][c + 1])
        ELSE Sub(t[i][j], Mul(t[i][c + 1], Div(t[r + 1][j], t[r + 1][c + 1])))]]

\* the tableau and the basis that follow step k of the trace: those of step
\* k + 1, or after the last step those the returned values were read from
TableauAfter(trace, k) ==
    IF k < Len(trace) THEN trace[k + 1].tableau ELSE tableau

BasisAfter(trace, k) ==
    IF k < Len(trace) THEN trace[k + 1].basicVariables ELSE basicVariables

\* C8: replaying the recorded pivots from the first step's tableau gives at
\* each position the tableau recorded there and, after the last pivot, the
\* tableau and the basis the returned values were read from.  Stated
\* position by position: the replay agrees with the record at position 1 by
\* definition, and at position k + 1 when the recorded pivot of step k takes
\* the tableau recorded in step k to the one recorded next.
ReplayReproducesTrace ==
    Returned =>
      LET trace == result.steps
          final == tableau
      IN  /\ \A k \in DOMAIN trace :
               IF "pivotRow" \in DOMAIN trace[k]
               THEN /\ ReplayPivot(trace[k].tableau, trace[k].pivotRow,
                                   trace[k].pivotCol) = TableauAfter(trace, k)
                    /\ [trace[k].basicVariables EXCEPT
                          ![trace[k].pivotRow + 1] = trace[k].pivotCol]
                         = BasisAfter(trace, k)
               ELSE /\ k = Len(trace)
                    /\ trace[k].tableau = final
                    /\ trace[k].basicVariables = basicVariables
          /\ result.status = "OPTIMAL" =>
               /\ result.optimalValue =
                    (IF model.type = "MIN"
                     THEN Neg(final[Len(final)][Len(final[1])])
                     ELSE final[Len(final)][Len(final[1])])
               /\ \A i \in DOMAIN basicVariables :
                    basicVariables[i] < model.numVariables =>
                      result.variableValues[basicVariables[i] + 1] =
                        final[i][Len(final[i])]

ReturnedAfterTwoPivots ==
    Returned /\ result.status = "OPTIMAL" /\ Len(result.steps) >= 3

\* row i of t has an entry > 0 in column c (counted from 1)
PositiveIn(t, i, c) == Lt(Zero, t[i][c])

\* RHS/entry of row i, as line 91 computes it, is less than that of row k
RatioBelow(t, c, i, k) ==
    Lt(Div(t[i][Len(t[i])], t[i][c]), Div(t[k][Len(t[k])], t[k][c]))

\* C9: the pivot row of every pivot step has an entry > 0 in the entering
\* column, no row with an entry > 0 there has a smaller RHS/entry, and every
\* such row of lower index has a strictly larger one.
RatioTestChoosesFirstMinimum ==
    \A k \in DOMAIN steps :
      "pivotRow" \in DOMAIN steps[k] =>
        LET t == steps[k].tableau
            r == steps[k].pivotRow + 1
            c == steps[k].pivotCol + 1
        IN  /\ r \in 1..(Len(t) - 1)
            /\ PositiveIn(t, r, c)
            /\ \A i \in 1..(Len(t) - 1) :
                 PositiveIn(t, i, c) =>
                   /\ ~RatioBelow(t, c, i, r)
                   /\ (i < r => RatioBelow(t, c, r, i))

\* two rows tie at the minimal ratio and the pivot row is the first of them
RatioTieSeen ==
    \E k \in DOMAIN steps :
      /\ "pivotRow" \in DOMAIN steps[k]
      /\ LET t == steps[k].tableau
             r == steps[k].pivotRow + 1
             c == steps[k].pivotCol + 1
         IN  \E i \in (r + 1)..(Len(t) - 1) :
               /\ PositiveIn(t, i, c)
               /\ ~RatioBelow(t, c, r, i)
               /\ ~RatioBelow(t, c, i, r)

SecondCallOnSameModel == Len(calls) = 2 /\ calls[2].model = calls[1].model

\* C10: a second call on the same model returns the result of the first:
\* status, optimal value, variable values and every step.
SecondCallSameResult ==
    SecondCallOnSameModel => calls[2].result = calls[1].result

SecondCallRepeatsPivots ==
    SecondCallOnSameModel /\ Len(calls[2].result.steps) >= 3

\* C11: no step of a call changes the model it was given, on the way to an
\* OPTIMAL return, to an UNBOUNDED return and to the exit at the iteration
\* ceiling alike; only the caller, between two calls, replaces it.
ModelNeverWritten == [][pc # "done" => model' = model]_vars

\* a call has returned after a pivot that changed the constraint rows of the
\* tableau, and the model still is the one the first tableau was built from
PivotLeftModelAlone ==
    /\ Returned
    /\ iterations >= 1
    /\ result.steps[1].tableau = Snapshot(InitialTableau(model))
    /\ \E i \in DOMAIN model.constraints, j \in 1..model.numVariables :
         tableau[i][j] # model.constraints[i].coefficients[j]

\* C12: in every pivot step the entering column is a non-RHS column whose
\* objective-row entry in the recorded (pre-pivot) tableau is < 0, no column
\* has a smaller entry, every column of lower index has a strictly larger
\* one, and the column is not one of the step's basic columns.
EnteringColumnIsFirstMostNegative ==
    \A k \in DOMAIN steps :
      "pivotCol" \in DOMAIN steps[k] =>
        LET t == steps[k].tableau
            lastRow == t[Len(t)]
            c == steps[k].pivotCol + 1
        IN  /\ c \in 1..(Len(lastRow) - 1)
            /\ Lt(lastRow[c], Zero)
            /\ \A j \in 1..(Len(lastRow) - 1) :
                 /\ ~Lt(lastRow[j], lastRow[c])
                 /\ (j < c => Lt(lastRow[c], lastRow[j]))
            /\ \A i \in DOMAIN steps[k].basicVariables :
                 steps[k].basicVariables[i] # steps[k].pivotCol

\* a returned call has a pivot step in which a later column shares the most
\* negative entry with the entering column
MostNegativeTieSeen ==
    /\ Returned
    /\ \E k \in DOMAIN steps :
         /\ "pivotCol" \in DOMAIN steps[k]
         /\ LET lastRow == steps[k].tableau[Len(steps[k].tableau)]
                c == steps[k].pivotCol + 1
            IN  \E j \in (c + 1)..(Len(lastRow) - 1) : lastRow[j] = lastRow[c]

\* the last recorded step, if there is one, is the terminal isOptimal step
EndsWithOptimalStep(trace) == trace # <<>> /\ trace[Len(trace)].isOptimal

\* the pivot steps of a trace
PivotSteps(trace) == {k \in DOMAIN trace : ~trace[k].isOptimal}

\* C13 as stated: the loop is left without the terminal isOptimal step only
\* when the iteration counter exceeds the ceiling of 100.
CeilingExitOnlyAboveCeiling ==
    (pc = "extract" /\ ~EndsWithOptimalStep(steps)) =>
      iterations > maxIterations

\* C13: the iteration counter counts the pivots and never exceeds 100; the
\* loop is left without the terminal isOptimal step exactly when the counter
\* has reached 100, and after the 100th pivot no optimality test is run: the
\* last recorded step is then that pivot and no terminal step follows it.
LoopStopsWhenCounterReachesCeiling ==
    /\ iterations \in 0..maxIterations
    /\ iterations = Cardinality(PivotSteps(steps))
    /\ (pc = "extract" /\ ~EndsWithOptimalStep(steps)) =>
         iterations = maxIterations
    /\ iterations = maxIterations => ~EndsWithOptimalStep(steps)

\* a call has returned after its 100th pivot, its last step being that pivot
StoppedAfterHundredthPivot ==
    /\ Returned
    /\ iterations = maxIterations
    /\ Len(result.steps) = maxIterations
    /\ ~EndsWithOptimalStep(result.steps)

\* the two models agree on type, numVariables, objectiveCoefficients and on
\* every constraint's coefficients and rhs, in the same order
SameNumbers(m1, m2) ==
    /\ m1.type = m2.type
    /\ m1.numVariables = m2.numVariables
    /\ m1.objectiveCoefficients = m2.objectiveCoefficients
    /\ Len(m1.constraints) = Len(m2.constraints)
    /\ \A i \in DOMAIN m1.constraints :
         /\ m1.constraints[i].coefficients = m2.constraints[i].coefficients
         /\ m1.constraints[i].rhs = m2.constraints[i].rhs

SecondCallOnRelabelledModel ==
    /\ Len(calls) = 2
    /\ calls[2].model # calls[1].model
    /\ SameNumbers(calls[1].model, calls[2].model)

VariableOfColumn(N, col) ==
    IF col < N THEN <<"x", col + 1>> ELSE <<"s", col - N + 1>>

\* C15: the description of every pivot step names as entering the variable
\* of the pivot column and as leaving the variable that was basic in the
\* pivot row before the pivot, decision variables as x and slacks as s.
DescriptionNamesPivotVariables ==
    \A k \in DOMAIN steps :
      "pivotRow" \in DOMAIN steps[k] =>
        /\ steps[k].description.entering =
             VariableOfColumn(model.numVariables, steps[k].pivotCol)
        /\ steps[k].description.leaving =
             VariableOfColumn(model.numVariables,
                              steps[k].basicVariables[steps[k].pivotRow + 1])

\* c.x as a real number, without the rounding of a double's operations
RECURSIVE ExactDotFrom(_, _, _)
ExactDotFrom(c, x, j) ==
    IF j > Len(c) THEN Parts(Zero)
    ELSE ExactAdd(ExactMul(Parts(c[j]), Parts(x[j])), ExactDotFrom(c, x, j + 1))

ExactDot(c, x) == ExactDotFrom(c, x, 1)

\* the real number a is at most the number b
AtMost(a, b) == ExactAdd(a, ExactNeg(Parts(b))).s <= 0

\* the real number a is the number b
Same(a, b) == ExactAdd(a, ExactNeg(Parts(b))).s = 0

\* every right-hand side of the model is >= 0
RhsNonNegative(m) ==
    \A i \in DOMAIN m.constraints :
      IsNum(m.constraints[i].rhs) /\ ~Lt(m.constraints[i].rhs, Zero)

\* the RHS entry of every constraint row of t is >= 0
RowsNonNegative(t) ==
    \A i \in 1..(Len(t) - 1) : ~Lt(t[i][Len(t[i])], Zero)

\* x >= 0 satisfies every constraint of m read as coefficients.x <= rhs
PointFeasible(m, x) ==
    /\ \A j \in DOMAIN x : ~Lt(x[j], Zero)
    /\ \A i \in DOMAIN m.constraints :
         AtMost(ExactDot(m.constraints[i].coefficients, x),
                m.constraints[i].rhs)

\* every entry of t is a double of few binary digits
AllSmall(t) == \A i \in DOMAIN t : \A j \in DOMAIN t[i] : t[i][j].k = "num"

\* no operation of the call has rounded: every entry of every recorded
\* tableau and of the last one is a double of few binary digits, which the
\* operations on such doubles give exactly or not at all
RunIsExact ==
    AllSmall(tableau) /\ \A k \in DOMAIN steps : AllSmall(steps[k].tableau)

InsideOrAfterCall == pc \in {"loop", "extract", "done"}

ValuesReadFromBasicRows(m, t, basis, values) ==
    /\ Len(values) = m.numVariables
    /\ \A j \in 1..m.numVariables :
         IF \E i \in DOMAIN basis : basis[i] = j - 1
         THEN \A i \in DOMAIN basis :
                basis[i] = j - 1 => values[j] = t[i][Len(t[i])]
         ELSE values[j] = Zero

\* C17 as stated: in every OPTIMAL result variableValues has numVariables
\* entries, each the RHS of the variable's basic row or 0, and optimalValue
\* is the objective at that point, the sum of objectiveCoefficients[i] *
\* variableValues[i].
OptimalValueIsObjectiveAtPoint ==
    (Returned /\ result.status = "OPTIMAL") =>
      /\ ValuesReadFromBasicRows(model, tableau, basicVariables,
                                 result.variableValues)
      /\ Same(ExactDot(model.objectiveCoefficients, result.variableValues),
              result.optimalValue)

\* C17: in every OPTIMAL result variableValues has numVariables entries,
\* each the RHS of the variable's basic row or 0, and optimalValue is the
\* objective row's RHS entry, negated for MINIMIZE; it is the objective at
\* the returned point when no operation of the call has rounded.
OptimalValueIsObjectiveAtPointUnrounded ==
    (Returned /\ result.status = "OPTIMAL") =>
      /\ ValuesReadFromBasicRows(model, tableau, basicVariables,
                                 result.variableValues)
      /\ result.optimalValue =
           (IF model.type = "MIN"
            THEN Neg(tableau[Len(tableau)][Len(tableau[1])])
            ELSE tableau[Len(tableau)][Len(tableau[1])])
      /\ RunIsExact =>
           Same(ExactDot(model.objectiveCoefficients, result.variableValues),
                result.optimalValue)

\* an OPTIMAL result of a MINIMIZE model after a pivot, with a decision
\* variable basic in the second row and an optimal value other than 0, no
\* operation having rounded
MinimizeValueExtracted ==
    /\ Returned
    /\ result.status = "OPTIMAL"
    /\ model.type = "MIN"
    /\ RunIsExact
    /\ result.optimalValue # Zero
    /\ numConstraints(model) = 2
    /\ basicVariables[2] < model.numVariables
    /\ result.variableValues[basicVariables[2] + 1] # Zero

====
